---------------------------- MODULE Spec2Model ----------------------------
(***************************************************************************)
(* Payment receiver services of the repository: nine near-duplicate        *)
(* express servers (src/server.js holds four of them back to back, the     *)
(* src/unnamed parts hold five more).  Every server keeps two process-     *)
(* local arrays, paymentIntents and payments, and answers create-intent,   *)
(* hosted-page, confirm and webhook requests.  A request handler runs      *)
(* atomically between two awaits of an outbound call, so every handler is  *)
(* split into one action per stretch of code between suspension points.    *)
(*                                                                         *)
(* Variants (the value of the variable variant):                           *)
(*   "P4"  src/unnamed/part_004      token login, fallback to simulation   *)
(*   "P0"  src/unnamed/part_000      live only, confirm without lookup     *)
(*   "P1"  src/unnamed/part_001      hosted page, API key bearer           *)
(*   "P2"  src/unnamed/part_002      hosted page (payment link), login     *)
(*   "P3"  src/unnamed/part_003      hosted page, login                    *)
(*   "S1"  src/server.js 1-170       hosted page, nothing stored           *)
(*   "S2"  src/server.js 172-357     receiver stub                         *)
(*   "S3"  src/server.js 358-804     simulation chosen per intent          *)
(*   "S4"  src/server.js 805-1175    hosted-page fallback, then simulation *)
(***************************************************************************)
EXTENDS Integers, Sequences, FiniteSets, TLC

VARIABLES
    variant,         \* which server is running
    hasKey,          \* AIRWALLEX_API_KEY is set
    hasClient,       \* AIRWALLEX_CLIENT_ID is set
    now,             \* [year, month] read by new Date()
    paymentIntents,  \* let paymentIntents = []
    payments,        \* let payments = []
    nextId,          \* the next fresh intent id and payment id (Math.random(),
                     \* Date.now() and the processor never repeat an id)
    started,         \* the number of requests served so far
    reqs,            \* the requests in flight, one record per slot
    last,            \* the request answered by the step just taken, with its response
    issued,          \* the 200 answers of create-payment-intent that carried an id
    probe            \* a card handed to validateCardDetails on its own, and the
                     \* string it returned

vars == <<variant, hasKey, hasClient, now, paymentIntents, payments, nextId,
          started, reqs, last, issued, probe>>

config == <<variant, hasKey, hasClient, now, probe>>

---------------------------------------------------------------------------
(* Bounds of the exploration.                                              *)

\* the number of requests one run serves, those turned away at once with an
\* error status apart
MaxRequests == 3

\* the longest card number, in digits, and the longest CVV handed to
\* validateCardDetails on its own
MaxNumberLen == 20
MaxCvcLen == 5

---------------------------------------------------------------------------
(* Values.  A missing string is "undefined", a missing number 0 (both are  *)
(* falsy in the code), a missing id NoId.                                  *)

Undef == "undefined"
NoId == <<"none", 0>>

Slots == 1..MaxRequests

\* '4242...' of n digits
Digits(n) == [i \in 1..n |-> IF i % 2 = 1 THEN "4" ELSE "2"]

\* number.replace(/\s/g, '')
RECURSIVE StripWs(_)
StripWs(s) ==
    IF s = <<>> THEN <<>>
    ELSE IF Head(s) = " " THEN StripWs(Tail(s))
    ELSE <<Head(s)>> \o StripWs(Tail(s))

\* number.slice(-4)
Slice4(s) == IF Len(s) <= 4 THEN s ELSE SubSeq(s, Len(s) - 3, Len(s))

\* validateCardDetails without its expiry comparison: a wrong version, kept to
\* show that the short-circuit property C8 tells the two apart
validateCardDetailsNoExpiry(card, today) ==
    LET cleanNumber == StripWs(card.number)
    IN  IF Len(cleanNumber) = 0 \/ Len(cleanNumber) < 15 \/ Len(cleanNumber) > 19
            THEN "Invalid card number"
        ELSE IF card.exp_month < 1 \/ card.exp_month > 12
            THEN "Invalid expiry month"
        ELSE IF card.exp_year < today.year
                \/ (card.exp_year = today.year /\ card.exp_month < today.month)
            THEN "null"
        ELSE IF Len(card.cvc) = 0 \/ Len(card.cvc) < 3 \/ Len(card.cvc) > 4
            THEN "Invalid CVV"
        ELSE "null"

\* validateCardDetails turning away numbers of 19 digits: a wrong version,
\* kept to show that the length property C18 tells the two apart
validateCardDetailsShort(card, today) ==
    LET cleanNumber == StripWs(card.number)
    IN  IF Len(cleanNumber) = 0 \/ Len(cleanNumber) < 15 \/ Len(cleanNumber) > 18
            THEN "Invalid card number"
        ELSE IF card.exp_month < 1 \/ card.exp_month > 12
            THEN "Invalid expiry month"
        ELSE IF card.exp_year < today.year
                \/ (card.exp_year = today.year /\ card.exp_month < today.month)
            THEN "Card expired"
        ELSE IF Len(card.cvc) = 0 \/ Len(card.cvc) < 3 \/ Len(card.cvc) > 4
            THEN "Invalid CVV"
        ELSE "null"

\* validateCardDetails turning away cards that expire in the current month: a
\* wrong version, kept to show that the expiry property C19 tells the two apart
validateCardDetailsThisMonth(card, today) ==
    LET cleanNumber == StripWs(card.number)
    IN  IF Len(cleanNumber) = 0 \/ Len(cleanNumber) < 15 \/ Len(cleanNumber) > 19
            THEN "Invalid card number"
        ELSE IF card.exp_month < 1 \/ card.exp_month > 12
            THEN "Invalid expiry month"
        ELSE IF card.exp_year < today.year
                \/ (card.exp_year = today.year /\ card.exp_month <= today.month)
            THEN "Card expired"
        ELSE IF Len(card.cvc) = 0 \/ Len(card.cvc) < 3 \/ Len(card.cvc) > 4
            THEN "Invalid CVV"
        ELSE "null"

\* validateCardDetails(card): "null" for no error
validateCardDetails(card, today) ==
    LET cleanNumber == StripWs(card.number)
    IN  IF Len(cleanNumber) = 0 \/ Len(cleanNumber) < 15 \/ Len(cleanNumber) > 19
            THEN "Invalid card number"
        ELSE IF card.exp_month < 1 \/ card.exp_month > 12
            THEN "Invalid expiry month"
        ELSE IF card.exp_year < today.year
                \/ (card.exp_year = today.year /\ card.exp_month < today.month)
            THEN "Card expired"
        ELSE IF Len(card.cvc) = 0 \/ Len(card.cvc) < 3 \/ Len(card.cvc) > 4
            THEN "Invalid CVV"
        ELSE "null"

---------------------------------------------------------------------------
(* Request bodies the clients send.                                        *)

CustAbsent == [present |-> FALSE, email |-> Undef]
CustNoEmail == [present |-> TRUE, email |-> Undef]
CustOk == [present |-> TRUE, email |-> "a@b.com"]

\* every order carries the same orderId, so Payments come to share one
CreateBody(a, c, cust) ==
    [amount |-> a, currency |-> c, customer |-> cust, orderId |-> "order_1"]

CreateBodies ==
    { CreateBody(100, "EUR", CustOk), CreateBody(0, "EUR", CustOk),
      CreateBody(100, "EUR", CustNoEmail), CreateBody(100, "EUR", CustAbsent) }

Cvc(n) == [i \in 1..n |-> "1"]

NoCard == [present |-> FALSE, number |-> <<>>, exp_month |-> 0, exp_year |-> 0,
           cvc |-> <<>>]
GoodCard == [present |-> TRUE, number |-> Digits(16), exp_month |-> 12,
             exp_year |-> 2030, cvc |-> Cvc(3)]

Cards ==
    { GoodCard,
      [GoodCard EXCEPT !.number = Digits(14)],
      [GoodCard EXCEPT !.number = Digits(4) \o <<" ">> \o Digits(4) \o <<" ">>
                                   \o Digits(4) \o <<" ">> \o Digits(2)],
      [GoodCard EXCEPT !.exp_month = 13],
      [GoodCard EXCEPT !.exp_month = 2, !.exp_year = 2025],
      [GoodCard EXCEPT !.cvc = Cvc(2)] }

\* '4242 4242 4242 424': fifteen digits in groups, the last group of three
GroupedCard == [GoodCard EXCEPT !.number = Digits(4) \o <<" ">> \o Digits(4) \o <<" ">>
                                          \o Digits(4) \o <<" ">> \o Digits(3)]

\* no card is being validated on its own
NoProbe == [card |-> NoCard, verdict |-> "none"]

NoBilling == [present |-> FALSE, email |-> Undef]
Billing == [present |-> TRUE, email |-> "a@b.com"]

\* order_id is paymentMethod.metadata?.order_id
NoMethod == [present |-> FALSE, card |-> NoCard, billing |-> NoBilling, order_id |-> Undef]

PaymentMethods ==
    {NoMethod}
    \cup {[present |-> TRUE, card |-> NoCard, billing |-> Billing, order_id |-> "order_1"]}
    \cup {[present |-> TRUE, card |-> GoodCard, billing |-> NoBilling, order_id |-> "order_1"]}
    \cup {[present |-> TRUE, card |-> c, billing |-> Billing, order_id |-> "order_1"] :
                c \in Cards}

\* ids a client may put in paymentIntentId: none, every id handed out so
\* far, and one that was never handed out
ClientIds == {NoId, <<"pi", 0>>} \cup {<<"pi", i>> : i \in 1..(nextId.pi - 1)}

\* every id with every payment method, and the grouped card for the ids that
\* were handed out
ConfirmBodies ==
    [paymentIntentId : ClientIds, paymentMethod : PaymentMethods]
    \cup {[paymentIntentId |-> <<"pi", i>>,
           paymentMethod |-> [present |-> TRUE, card |-> GroupedCard, billing |-> Billing,
                             order_id |-> "order_1"]] :
              i \in 1..(nextId.pi - 1)}

NoData == [present |-> FALSE, id |-> NoId, amount |-> 0, currency |-> Undef]

WebhookBodies ==
    [type : {"payment_intent.succeeded", "payment_intent.captured",
             "payment_intent.failed", "payment_intent.canceled", "other"},
     data : {NoData,
             [present |-> TRUE, id |-> <<"pi", 1>>, amount |-> 100,
              currency |-> "USD"]}]

---------------------------------------------------------------------------
(* What the processor may answer.                                          *)

credentials == hasKey /\ hasClient

\* the login call: a token, a 2xx body without any token field, a non-2xx
\* answer, or fetch throwing; without credentials the processor gives no token
LoginOutcomes(creds) ==
    IF creds THEN {"token", "notoken", "non2xx", "throw"}
    ELSE {"non2xx", "throw"}

\* the intent-creation call: a 2xx answer, a non-2xx answer, or fetch throwing
CreateOutcomes(auth) ==
    IF auth THEN {"ok", "non2xx", "throw"} ELSE {"non2xx", "throw"}

\* the same call of the hosted-page flow: a 2xx answer may lack the redirect url
HppOutcomes(auth) ==
    IF auth THEN {"redirect", "noredirect", "non2xx", "throw"} ELSE {"non2xx", "throw"}

\* the body of a 2xx answer of the confirm call
ConfirmResult(st, id, a, c) == [status |-> st, hasId |-> id, amount |-> a, currency |-> c]

ConfirmResults ==
    { ConfirmResult("SUCCEEDED", TRUE, 100, "EUR"),
      ConfirmResult("SUCCEEDED", TRUE, 10000, "USD"),
      ConfirmResult("SUCCEEDED", FALSE, 100, "EUR"),
      ConfirmResult("succeeded", TRUE, 100, "EUR"),
      ConfirmResult("CAPTURED", TRUE, 100, "EUR"),
      ConfirmResult("REQUIRES_CAPTURE", TRUE, 100, "EUR"),
      ConfirmResult("FAILED", TRUE, 100, "EUR") }

NoResult == ConfirmResult(Undef, FALSE, 0, Undef)

\* what the await of the confirm call may deliver: <<outcome, body>>
ConfirmReturns ==
    {<<"ok", res>> : res \in ConfirmResults}
    \cup {<<"non2xx", NoResult>>, <<"throw", NoResult>>}

\* a call without a valid bearer is never answered 2xx
ConfirmReturnsFor(auth) ==
    IF auth THEN ConfirmReturns ELSE {ret \in ConfirmReturns : ret[1] # "ok"}

\* 'SUCCEEDED'.toUpperCase()
toUpperCase(s) ==
    CASE s = "succeeded" -> "SUCCEEDED"
      [] OTHER -> s

\* 'SUCCEEDED'.toLowerCase()
toLowerCase(s) ==
    CASE s = "SUCCEEDED" -> "succeeded"
      [] s = "CAPTURED" -> "captured"
      [] s = "REQUIRES_CAPTURE" -> "requires_capture"
      [] s = "FAILED" -> "failed"
      [] OTHER -> s

---------------------------------------------------------------------------
(* Records.                                                                *)

NoIntent == [id |-> NoId, amount |-> 0, currency |-> Undef, status |-> Undef,
             simulation |-> Undef, email |-> Undef, orderId |-> Undef]

NoResp == [id |-> NoId, status |-> Undef, amount |-> 0, currency |-> Undef,
           simulation |-> Undef, card_last4 |-> <<>>, redirect_url |-> Undef,
           error |-> Undef]

Err(msg) == [NoResp EXCEPT !.error = msg]

\* res.json(localPaymentIntent)
IntentResp(pi) ==
    [NoResp EXCEPT !.id = pi.id, !.status = pi.status, !.amount = pi.amount,
                   !.currency = pi.currency, !.simulation = pi.simulation]

\* a request as it arrives
NewReq(kind, body) ==
    [kind |-> kind, body |-> body, pc |-> "start", calls |-> <<>>,
     intent |-> NoIntent, found |-> FALSE, valErr |-> Undef, fail |-> "none",
     token |-> Undef, result |-> NoResult,
     addedI |-> 0, addedP |-> 0, code |-> 0, resp |-> NoResp]

\* a free slot
Idle == NewReq("idle", [none |-> TRUE])

\* no request was answered by the step just taken
NoLast == NewReq("none", [none |-> TRUE])

\* a request arrives and takes the first free slot.  A request turned away
\* at once leaves the ledger and the requests in flight as they were, so the
\* next arrival is explored from the state before it, not after it again.
Arrive(s) ==
    /\ reqs[s] = Idle
    /\ \A t \in Slots : t < s => reqs[t] # Idle
    /\ started < MaxRequests
    /\ ~(last.pc = "done" /\ last.calls = <<>> /\ last.code >= 400)

\* the step that received a request is over: the request counts unless it
\* was turned away at once
Received ==
    /\ started' = IF last'.code >= 400 THEN started ELSE started + 1
    /\ UNCHANGED config

\* a request in flight goes on
Resume(s, kind, pc) ==
    /\ reqs[s].kind = kind
    /\ reqs[s].pc = pc
    /\ UNCHANGED started

\* the handler suspends at an await
Await(s, r) ==
    /\ reqs' = [reqs EXCEPT ![s] = r]
    /\ last' = NoLast
    /\ UNCHANGED issued

\* res.status(code).json(body)
Respond(s, r, code, body) ==
    /\ reqs' = [reqs EXCEPT ![s] = Idle]
    /\ last' = [r EXCEPT !.pc = "done", !.code = code, !.resp = body]
    /\ issued' = IF r.kind = "create" /\ code = 200 /\ body.id # NoId
                 THEN issued \cup {[id |-> body.id, amount |-> r.body.amount,
                                    currency |-> r.body.currency]}
                 ELSE issued

Calls(r, c) == [r EXCEPT !.calls = Append(@, c)]

Failed(r, c) == [r EXCEPT !.fail = c]

\* a lookup that no longer finds an intent once a Payment references it: a
\* wrong version, kept to show that C25 tells the two apart
findUnpaid(id) ==
    IF \E i \in 1..Len(payments) : payments[i].payment_intent_id = id
    THEN NoIntent
    ELSE IF \E i \in 1..Len(paymentIntents) : paymentIntents[i].id = id
    THEN paymentIntents[CHOOSE i \in 1..Len(paymentIntents) :
                           /\ paymentIntents[i].id = id
                           /\ \A j \in 1..(i - 1) : paymentIntents[j].id # id]
    ELSE NoIntent

\* paymentIntents.find(pi => pi.id === paymentIntentId)
find(id) ==
    IF \E i \in 1..Len(paymentIntents) : paymentIntents[i].id = id
    THEN paymentIntents[CHOOSE i \in 1..Len(paymentIntents) :
                           /\ paymentIntents[i].id = id
                           /\ \A j \in 1..(i - 1) : paymentIntents[j].id # id]
    ELSE NoIntent


---------------------------------------------------------------------------
(* Simulation handlers shared by the servers that have a Simulation Mode.  *)

\* createSimulatedPaymentIntent answering without storing the intent: a wrong
\* version, kept to show that C5 tells the two apart
createSimulatedPaymentIntentUnstored(s, r) ==
    LET localPaymentIntent ==
            [id |-> <<"pi", nextId.pi>>,
             amount |-> r.body.amount,
             currency |-> IF r.body.currency = Undef THEN "USD" ELSE r.body.currency,
             status |-> "requires_payment_method",
             simulation |-> "true",
             email |-> r.body.customer.email,
             orderId |-> r.body.orderId]
    IN  /\ nextId' = [nextId EXCEPT !.pi = @ + 1]
        /\ UNCHANGED <<paymentIntents, payments>>
        /\ Respond(s, [r EXCEPT !.addedI = @ + 1], 200, IntentResp(localPaymentIntent))

\* createSimulatedPaymentIntent(req, res)
createSimulatedPaymentIntent(s, r) ==
    LET localPaymentIntent ==
            [id |-> <<"pi", nextId.pi>>,
             amount |-> r.body.amount,
             currency |-> IF r.body.currency = Undef THEN "USD" ELSE r.body.currency,
             status |-> "requires_payment_method",
             simulation |-> "true",
             email |-> r.body.customer.email,
             orderId |-> r.body.orderId]
    IN  /\ paymentIntents' = Append(paymentIntents, localPaymentIntent)
        /\ nextId' = [nextId EXCEPT !.pi = @ + 1]
        /\ UNCHANGED payments
        /\ Respond(s, [r EXCEPT !.addedI = @ + 1], 200, IntentResp(localPaymentIntent))

\* the record a confirm stores, built from the intent found in the ledger
PaymentRecord(id, paymentIntentId, pi, paymentMethod, sim) ==
    [id |-> id,
     payment_intent_id |-> paymentIntentId,
     status |-> "succeeded",
     amount |-> pi.amount,
     currency |-> pi.currency,
     order_id |-> pi.orderId,
     customer_email |-> pi.email,
     card_last4 |-> Slice4(paymentMethod.card.number),
     simulation |-> sim]

\* processSimulatedPayment storing the record twice: a wrong version, kept to
\* show that C1 tells the two apart
processSimulatedPaymentTwice(s, r) ==
    LET paymentResult ==
            [NoResp EXCEPT !.id = <<"pay", nextId.pay>>,
                           !.status = "succeeded",
                           !.amount = r.intent.amount,
                           !.currency = r.intent.currency,
                           !.card_last4 = Slice4(r.body.paymentMethod.card.number),
                           !.simulation = "true"]
        paymentRecord ==
            PaymentRecord(paymentResult.id, r.intent.id, r.intent,
                          r.body.paymentMethod, "true")
    IN  /\ payments' = Append(Append(payments, paymentRecord), paymentRecord)
        /\ nextId' = [nextId EXCEPT !.pay = @ + 1]
        /\ UNCHANGED paymentIntents
        /\ Respond(s, [r EXCEPT !.addedP = @ + 1], 200, paymentResult)

\* processSimulatedPayment(paymentIntent, paymentMethod, res)
processSimulatedPayment(s, r) ==
    LET paymentResult ==
            [NoResp EXCEPT !.id = <<"pay", nextId.pay>>,
                           !.status = "succeeded",
                           !.amount = r.intent.amount,
                           !.currency = r.intent.currency,
                           !.card_last4 = Slice4(r.body.paymentMethod.card.number),
                           !.simulation = "true"]
        paymentRecord ==
            PaymentRecord(paymentResult.id, r.intent.id, r.intent,
                          r.body.paymentMethod, "true")
    IN  /\ payments' = Append(payments, paymentRecord)
        /\ nextId' = [nextId EXCEPT !.pay = @ + 1]
        /\ UNCHANGED paymentIntents
        /\ Respond(s, [r EXCEPT !.addedP = @ + 1], 200, paymentResult)

---------------------------------------------------------------------------
(* POST /api/create-payment-intent with a login call (P4, S4).             *)

\* the handler up to its first await
TokenCreateStart(v, s, b) ==
    LET r == NewReq("create", b)
    IN  /\ variant = v
        /\ Arrive(s)
        /\ IF b.amount = 0 \/ ~b.customer.present \/ b.customer.email = Undef
           THEN /\ Respond(s, r, 400, Err("Missing required fields"))
                /\ UNCHANGED <<paymentIntents, payments, nextId>>
           ELSE IF ~hasKey \/ ~hasClient
           THEN createSimulatedPaymentIntent(s, r)
           ELSE /\ Await(s, Calls([r EXCEPT !.pc = "login"], "login"))
                /\ UNCHANGED <<paymentIntents, payments, nextId>>
        /\ Received

\* the intent the live branch stores
LiveIntent(r) ==
    [id |-> <<"pi", nextId.pi>>,
     amount |-> r.body.amount,
     currency |-> IF r.body.currency = Undef THEN "USD" ELSE r.body.currency,
     status |-> "REQUIRES_PAYMENT_METHOD",
     simulation |-> "false",
     email |-> r.body.customer.email,
     orderId |-> r.body.orderId]

StoreLiveIntent(s, r) ==
    /\ paymentIntents' = Append(paymentIntents, LiveIntent(r))
    /\ nextId' = [nextId EXCEPT !.pi = @ + 1]
    /\ UNCHANGED payments
    /\ Respond(s, [r EXCEPT !.addedI = @ + 1], 200, IntentResp(LiveIntent(r)))

P4_CreateStart(s, b) == TokenCreateStart("P4", s, b)

\* getAirwallexToken() returns or throws
P4_CreateLogin(s, o) ==
    LET r == reqs[s]
    IN  /\ variant = "P4"
        /\ Resume(s, "create", "login")
        /\ IF o = "token"
           THEN /\ Await(s, Calls([r EXCEPT !.pc = "create", !.token = "token"], "create"))
                /\ UNCHANGED <<paymentIntents, payments, nextId>>
           ELSE createSimulatedPaymentIntent(s, Failed(r, "login"))
        /\ UNCHANGED config

\* createAirwallexPaymentIntent() returns or throws
P4_CreateReturn(s, o) ==
    LET r == reqs[s]
    IN  /\ variant = "P4"
        /\ Resume(s, "create", "create")
        /\ IF o = "ok"
           THEN StoreLiveIntent(s, r)
           ELSE createSimulatedPaymentIntent(s, Failed(r, "create"))
        /\ UNCHANGED config

---------------------------------------------------------------------------
(* POST /api/confirm-payment choosing the mode from the credentials        *)
(* (P4, S4).                                                               *)

TokenConfirmStart(v, s, b) ==
    LET paymentIntent == find(b.paymentIntentId)
        r == [NewReq("confirm", b) EXCEPT !.intent = paymentIntent,
                                          !.found = (paymentIntent # NoIntent)]
        validationError == validateCardDetails(b.paymentMethod.card, now)
    IN  /\ variant = v
        /\ Arrive(s)
        /\ IF b.paymentIntentId = NoId \/ ~b.paymentMethod.present
           THEN /\ Respond(s, r, 400, Err("Missing paymentIntentId or paymentMethod"))
                /\ UNCHANGED <<paymentIntents, payments, nextId>>
           ELSE IF paymentIntent = NoIntent
           THEN /\ Respond(s, r, 404, Err("Payment intent not found"))
                /\ UNCHANGED <<paymentIntents, payments, nextId>>
           ELSE IF ~b.paymentMethod.card.present
           THEN \* destructuring undefined throws: the outer catch answers
                /\ Respond(s, r, 500, Err("Failed to confirm payment"))
                /\ UNCHANGED <<paymentIntents, payments, nextId>>
           ELSE IF validationError # "null"
           THEN /\ Respond(s, [r EXCEPT !.valErr = validationError], 400,
                           Err(validationError))
                /\ UNCHANGED <<paymentIntents, payments, nextId>>
           ELSE IF ~hasKey \/ ~hasClient
           THEN processSimulatedPayment(s, [r EXCEPT !.valErr = "null"])
           ELSE /\ Await(s, Calls([r EXCEPT !.valErr = "null", !.pc = "login"], "login"))
                /\ UNCHANGED <<paymentIntents, payments, nextId>>
        /\ Received

\* TokenConfirmLogin falling back to a simulated payment when the login
\* fails, as create does: a wrong version, kept to show that C9 tells the
\* two apart
TokenConfirmLoginFallback(v, s, o) ==
    LET r == reqs[s]
    IN  /\ variant = v
        /\ Resume(s, "confirm", "login")
        /\ IF o # "token"
           THEN processSimulatedPayment(s, Failed(r, "login"))
           ELSE IF ~r.body.paymentMethod.billing.present
           THEN /\ Respond(s, r, 500, Err("Payment gateway error"))
                /\ UNCHANGED <<paymentIntents, payments, nextId>>
           ELSE /\ Await(s, Calls([r EXCEPT !.pc = "confirm", !.token = "token"],
                                  "confirm"))
                /\ UNCHANGED <<paymentIntents, payments, nextId>>
        /\ UNCHANGED config

\* TokenConfirmLogin sending no response when the login fails: a wrong
\* version, kept to show that the response property C30 tells the two apart
TokenConfirmLoginSilent(v, s, o) ==
    LET r == reqs[s]
    IN  /\ variant = v
        /\ Resume(s, "confirm", "login")
        /\ IF o # "token"
           THEN Await(s, Failed([r EXCEPT !.pc = "hung"], "login"))
           ELSE IF ~r.body.paymentMethod.billing.present
           THEN Respond(s, r, 500, Err("Payment gateway error"))
           ELSE Await(s, Calls([r EXCEPT !.pc = "confirm", !.token = "token"], "confirm"))
        /\ UNCHANGED <<paymentIntents, payments, nextId>>
        /\ UNCHANGED config

\* getAirwallexToken() returns or throws; confirmAirwallexPayment() builds
\* its body (reading paymentMethod.billing) before it calls fetch
TokenConfirmLogin(v, s, o) ==
    LET r == reqs[s]
    IN  /\ variant = v
        /\ Resume(s, "confirm", "login")
        /\ IF o # "token"
           THEN Respond(s, Failed(r, "login"), 500, Err("Payment gateway error"))
           ELSE IF ~r.body.paymentMethod.billing.present
           THEN Respond(s, r, 500, Err("Payment gateway error"))
           ELSE Await(s, Calls([r EXCEPT !.pc = "confirm", !.token = "token"], "confirm"))
        /\ UNCHANGED <<paymentIntents, payments, nextId>>
        /\ UNCHANGED config

\* confirmAirwallexPayment() returns or throws
TokenConfirmReturn(v, s, ret) ==
    LET r == [reqs[s] EXCEPT !.result = ret[2]]
        o == ret[1]
        paymentResult == ret[2]
        status == toUpperCase(paymentResult.status)
        paymentRecord ==
            PaymentRecord(<<"pay", nextId.pay>>, r.body.paymentIntentId, r.intent,
                          r.body.paymentMethod, "false")
    IN  /\ variant = v
        /\ Resume(s, "confirm", "confirm")
        /\ IF o # "ok"
           THEN /\ Respond(s, Failed(r, "confirm"), 500, Err("Payment gateway error"))
                /\ UNCHANGED <<paymentIntents, payments, nextId>>
           ELSE IF status \in {"SUCCEEDED", "SUCCESS", "CAPTURED"}
           THEN /\ payments' = Append(payments, paymentRecord)
                /\ nextId' = [nextId EXCEPT !.pay = @ + 1]
                /\ UNCHANGED paymentIntents
                /\ Respond(s, [r EXCEPT !.addedP = @ + 1], 200,
                           [NoResp EXCEPT !.id = paymentRecord.id,
                                          !.status = "succeeded",
                                          !.amount = r.intent.amount,
                                          !.currency = r.intent.currency,
                                          !.card_last4 =
                                              Slice4(r.body.paymentMethod.card.number)])
           ELSE /\ Respond(s, r, 400, [Err("Payment processing failed")
                                        EXCEPT !.status = paymentResult.status])
                /\ UNCHANGED <<paymentIntents, payments, nextId>>
        /\ UNCHANGED config

P4_ConfirmStart(s, b) == TokenConfirmStart("P4", s, b)
P4_ConfirmLogin(s, o) == TokenConfirmLogin("P4", s, o)
P4_ConfirmReturn(s, ret) == TokenConfirmReturn("P4", s, ret)

P4_Next ==
    \E s \in Slots :
        \/ \E b \in CreateBodies : P4_CreateStart(s, b)
        \/ \E o \in LoginOutcomes(credentials) : P4_CreateLogin(s, o)
        \/ \E o \in CreateOutcomes(credentials) : P4_CreateReturn(s, o)
        \/ \E b \in ConfirmBodies : P4_ConfirmStart(s, b)
        \/ \E o \in LoginOutcomes(credentials) : P4_ConfirmLogin(s, o)
        \/ \E ret \in ConfirmReturns : P4_ConfirmReturn(s, ret)

---------------------------------------------------------------------------
(* S4: src/server.js 805-1175.  Create falls back to a hosted page, then   *)
(* to simulation; confirm is the one of P4 without the inner try.          *)

S4_CreateStart(s, b) == TokenCreateStart("S4", s, b)

\* the second getAirwallexToken(), in the catch block
RetryLogin(s, r, c) ==
    /\ Await(s, Calls(Failed([r EXCEPT !.pc = "fblogin"], c), "login"))
    /\ UNCHANGED <<paymentIntents, payments, nextId>>

\* getAirwallexToken() returns or throws
S4_CreateLogin(s, o) ==
    LET r == reqs[s]
    IN  /\ variant = "S4"
        /\ Resume(s, "create", "login")
        /\ IF o = "token"
           THEN /\ Await(s, Calls([r EXCEPT !.pc = "create", !.token = "token"], "create"))
                /\ UNCHANGED <<paymentIntents, payments, nextId>>
           ELSE RetryLogin(s, r, "login")
        /\ UNCHANGED config

\* createAirwallexPaymentIntent() returns or throws
S4_CreateReturn(s, o) ==
    LET r == reqs[s]
    IN  /\ variant = "S4"
        /\ Resume(s, "create", "create")
        /\ IF o = "ok"
           THEN StoreLiveIntent(s, r)
           ELSE RetryLogin(s, r, "create")
        /\ UNCHANGED config

\* the login of the hosted-page fallback returns or throws
S4_FallbackLogin(s, o) ==
    LET r == reqs[s]
    IN  /\ variant = "S4"
        /\ Resume(s, "create", "fblogin")
        /\ IF o = "token"
           THEN /\ Await(s, Calls([r EXCEPT !.pc = "fbcreate", !.token = "token"],
                                  "create"))
                /\ UNCHANGED <<paymentIntents, payments, nextId>>
           ELSE createSimulatedPaymentIntent(s, r)
        /\ UNCHANGED config

\* the second intent-creation call returns or throws; its status is not read
S4_FallbackCreate(s, o) ==
    LET r == reqs[s]
    IN  /\ variant = "S4"
        /\ Resume(s, "create", "fbcreate")
        /\ IF o = "redirect"
           THEN /\ Respond(s, r, 200, [NoResp EXCEPT !.redirect_url = "https://hpp"])
                /\ UNCHANGED <<paymentIntents, payments, nextId>>
           ELSE createSimulatedPaymentIntent(s, r)
        /\ UNCHANGED config

S4_ConfirmStart(s, b) == TokenConfirmStart("S4", s, b)
S4_ConfirmLogin(s, o) == TokenConfirmLogin("S4", s, o)
S4_ConfirmReturn(s, ret) == TokenConfirmReturn("S4", s, ret)

S4_Next ==
    \E s \in Slots :
        \/ \E b \in CreateBodies : S4_CreateStart(s, b)
        \/ \E o \in LoginOutcomes(credentials) : S4_CreateLogin(s, o)
        \/ \E o \in CreateOutcomes(credentials) : S4_CreateReturn(s, o)
        \/ \E o \in LoginOutcomes(credentials) : S4_FallbackLogin(s, o)
        \/ \E o \in HppOutcomes(credentials) : S4_FallbackCreate(s, o)
        \/ \E b \in ConfirmBodies : S4_ConfirmStart(s, b)
        \/ \E o \in LoginOutcomes(credentials) : S4_ConfirmLogin(s, o)
        \/ \E ret \in ConfirmReturns : S4_ConfirmReturn(s, ret)

---------------------------------------------------------------------------
(* Handlers that trust the processor's confirm answer (S3, P0).            *)

\* the record built from paymentResult
ResultRecord(id, paymentIntentId, paymentResult, orderId, email, paymentMethod, sim) ==
    [id |-> id,
     payment_intent_id |-> paymentIntentId,
     status |-> toLowerCase(paymentResult.status),
     amount |-> paymentResult.amount,
     currency |-> paymentResult.currency,
     order_id |-> orderId,
     customer_email |-> email,
     card_last4 |-> Slice4(paymentMethod.card.number),
     simulation |-> sim]

\* the 200 answer built from paymentResult
ResultResp(id, paymentResult, paymentMethod) ==
    [NoResp EXCEPT !.id = id,
                   !.status = "succeeded",
                   !.amount = paymentResult.amount,
                   !.currency = paymentResult.currency,
                   !.card_last4 = Slice4(paymentMethod.card.number)]

\* paymentResult.id
ResultId(paymentResult) == IF paymentResult.hasId THEN <<"pay", nextId.pay>> ELSE NoId

---------------------------------------------------------------------------
(* S3: src/server.js 358-804.                                              *)

S3_CreateStart(s, b) ==
    LET r == NewReq("create", b)
    IN  /\ variant = "S3"
        /\ Arrive(s)
        /\ IF ~b.customer.present
           THEN \* customer.email is logged before anything is checked
                /\ Respond(s, r, 500, Err("Failed to create payment intent"))
                /\ UNCHANGED <<paymentIntents, payments, nextId>>
           ELSE IF b.amount = 0 \/ b.customer.email = Undef
           THEN /\ Respond(s, r, 400, Err("Missing required fields"))
                /\ UNCHANGED <<paymentIntents, payments, nextId>>
           ELSE IF ~hasKey
           THEN createSimulatedPaymentIntent(s, r)
           ELSE /\ Await(s, Calls([r EXCEPT !.pc = "create"], "create"))
                /\ UNCHANGED <<paymentIntents, payments, nextId>>
        /\ Received

\* createAirwallexPaymentIntent() returns or throws
S3_CreateReturn(s, o) ==
    LET r == reqs[s]
    IN  /\ variant = "S3"
        /\ Resume(s, "create", "create")
        /\ IF o = "ok"
           THEN StoreLiveIntent(s, r)
           ELSE /\ Respond(s, Failed(r, "create"), 500,
                           Err("Failed to create payment intent"))
                /\ UNCHANGED <<paymentIntents, payments, nextId>>
        /\ UNCHANGED config

S3_ConfirmStart(s, b) ==
    LET paymentIntent == find(b.paymentIntentId)
        r == [NewReq("confirm", b) EXCEPT !.intent = paymentIntent,
                                          !.found = (paymentIntent # NoIntent)]
        validationError == validateCardDetails(b.paymentMethod.card, now)
    IN  /\ variant = "S3"
        /\ Arrive(s)
        /\ UNCHANGED <<paymentIntents, payments, nextId>>
        /\ IF \/ ~b.paymentMethod.present
              \/ ~b.paymentMethod.card.present
              \/ ~b.paymentMethod.billing.present
           THEN \* the log line reads card.number and billing.email
                Respond(s, r, 500, Err("Failed to confirm payment"))
           ELSE IF paymentIntent = NoIntent
           THEN Respond(s, r, 404, Err("Payment intent not found"))
           ELSE IF validationError # "null"
           THEN Respond(s, [r EXCEPT !.valErr = validationError], 400,
                        Err(validationError))
           ELSE IF paymentIntent.simulation = "true"
           THEN Await(s, [r EXCEPT !.valErr = "null", !.pc = "simdelay"])
           ELSE IF hasKey
           THEN Await(s, Calls([r EXCEPT !.valErr = "null", !.pc = "confirm"], "confirm"))
           ELSE Respond(s, [r EXCEPT !.valErr = "null"], 500,
                        Err("Payment gateway not configured"))
        /\ Received

\* processSimulatedPayment() resolves after its 2 s timer; the record gets
\* an id of its own
S3_SimulatedReturn(s) ==
    LET r == reqs[s]
        paymentResult ==
            [NoResp EXCEPT !.id = <<"pay", nextId.pay>>,
                           !.status = "succeeded",
                           !.amount = r.intent.amount,
                           !.currency = r.intent.currency,
                           !.card_last4 = Slice4(r.body.paymentMethod.card.number),
                           !.simulation = "true"]
        paymentRecord ==
            PaymentRecord(<<"pay", nextId.pay + 1>>, r.body.paymentIntentId, r.intent,
                          r.body.paymentMethod, "true")
    IN  /\ variant = "S3"
        /\ Resume(s, "confirm", "simdelay")
        /\ payments' = Append(payments, paymentRecord)
        /\ nextId' = [nextId EXCEPT !.pay = @ + 2]
        /\ UNCHANGED paymentIntents
        /\ Respond(s, [r EXCEPT !.addedP = @ + 1], 200, paymentResult)
        /\ UNCHANGED config

\* confirmAirwallexPayment() returns or throws
S3_ConfirmReturn(s, ret) ==
    LET r == [reqs[s] EXCEPT !.result = ret[2]]
        o == ret[1]
        paymentResult == ret[2]
        paymentRecord ==
            ResultRecord(ResultId(paymentResult), r.body.paymentIntentId,
                         paymentResult, r.intent.orderId, r.intent.email,
                         r.body.paymentMethod, "false")
    IN  /\ variant = "S3"
        /\ Resume(s, "confirm", "confirm")
        /\ IF o # "ok"
           THEN /\ Respond(s, Failed(r, "confirm"), 500, Err("Payment gateway error"))
                /\ UNCHANGED <<paymentIntents, payments, nextId>>
           ELSE IF paymentResult.status \in {"SUCCEEDED", "REQUIRES_CAPTURE"}
           THEN /\ payments' = Append(payments, paymentRecord)
                /\ nextId' = [nextId EXCEPT !.pay = @ + 1]
                /\ UNCHANGED paymentIntents
                /\ Respond(s, [r EXCEPT !.addedP = @ + 1], 200,
                           ResultResp(paymentRecord.id, paymentResult,
                                      r.body.paymentMethod))
           ELSE /\ Respond(s, r, 400, [Err("Payment processing failed")
                                        EXCEPT !.status = paymentResult.status])
                /\ UNCHANGED <<paymentIntents, payments, nextId>>
        /\ UNCHANGED config

\* POST /api/webhook/airwallex: logs the type
S3_Webhook(s, b) ==
    /\ variant = "S3"
    /\ Arrive(s)
    /\ Respond(s, NewReq("webhook", b), 200, NoResp)
    /\ UNCHANGED <<paymentIntents, payments, nextId>>
    /\ Received

S3_Next ==
    \E s \in Slots :
        \/ \E b \in CreateBodies : S3_CreateStart(s, b)
        \/ \E o \in CreateOutcomes(hasKey) : S3_CreateReturn(s, o)
        \/ \E b \in ConfirmBodies : S3_ConfirmStart(s, b)
        \/ S3_SimulatedReturn(s)
        \/ \E ret \in ConfirmReturns : S3_ConfirmReturn(s, ret)
        \/ \E b \in WebhookBodies : S3_Webhook(s, b)

---------------------------------------------------------------------------
(* Webhook receiver that records succeeded events (P0, S2).                *)

\* handleSuccessfulPayment(paymentData)
handleSuccessfulPayment(paymentData) ==
    [id |-> paymentData.id,
     payment_intent_id |-> NoId,
     status |-> "succeeded",
     amount |-> paymentData.amount,
     currency |-> paymentData.currency,
     order_id |-> Undef,
     customer_email |-> Undef,
     card_last4 |-> <<>>,
     simulation |-> Undef]

\* the webhook handler recording an event of any type that carries data: a
\* wrong version, kept to show that the frame property C22 tells the two apart
RecordingWebhookAnyType(v, s, b) ==
    LET r == NewReq("webhook", b)
        named == b.type \in {"payment_intent.succeeded", "payment_intent.failed",
                             "payment_intent.canceled"}
    IN  /\ variant = v
        /\ Arrive(s)
        /\ UNCHANGED <<paymentIntents, nextId>>
        /\ IF named /\ ~b.data.present
           THEN /\ Respond(s, r, 400, Err("Webhook processing failed"))
                /\ UNCHANGED payments
           ELSE IF b.data.present
           THEN /\ payments' = Append(payments, handleSuccessfulPayment(b.data))
                /\ Respond(s, [r EXCEPT !.addedP = @ + 1], 200, NoResp)
           ELSE /\ Respond(s, r, 200, NoResp)
                /\ UNCHANGED payments
        /\ Received

\* the webhook handler storing the new record in place of the array: a wrong
\* version, kept to show that the append-only property C20 tells the two apart
RecordingWebhookReplacing(v, s, b) ==
    LET r == NewReq("webhook", b)
        named == b.type \in {"payment_intent.succeeded", "payment_intent.failed",
                             "payment_intent.canceled"}
    IN  /\ variant = v
        /\ Arrive(s)
        /\ UNCHANGED <<paymentIntents, nextId>>
        /\ IF named /\ ~b.data.present
           THEN /\ Respond(s, r, 400, Err("Webhook processing failed"))
                /\ UNCHANGED payments
           ELSE IF b.type = "payment_intent.succeeded"
           THEN /\ payments' = <<handleSuccessfulPayment(b.data)>>
                /\ Respond(s, [r EXCEPT !.addedP = @ + 1], 200, NoResp)
           ELSE /\ Respond(s, r, 200, NoResp)
                /\ UNCHANGED payments
        /\ Received

\* POST /api/webhook/airwallex: every named handler reads paymentData.id, so
\* a missing data throws into the catch block
RecordingWebhook(v, s, b) ==
    LET r == NewReq("webhook", b)
        named == b.type \in {"payment_intent.succeeded", "payment_intent.failed",
                             "payment_intent.canceled"}
    IN  /\ variant = v
        /\ Arrive(s)
        /\ UNCHANGED <<paymentIntents, nextId>>
        /\ IF named /\ ~b.data.present
           THEN /\ Respond(s, r, 400, Err("Webhook processing failed"))
                /\ UNCHANGED payments
           ELSE IF b.type = "payment_intent.succeeded"
           THEN /\ payments' = Append(payments, handleSuccessfulPayment(b.data))
                /\ Respond(s, [r EXCEPT !.addedP = @ + 1], 200, NoResp)
           ELSE /\ Respond(s, r, 200, NoResp)
                /\ UNCHANGED payments
        /\ Received

\* POST /api/webhook of the hosted-page servers: logs, stores nothing
LoggingWebhook(v, s, b) ==
    /\ variant = v
    /\ Arrive(s)
    /\ Respond(s, NewReq("webhook", b), 200, NoResp)
    /\ UNCHANGED <<paymentIntents, payments, nextId>>
    /\ Received

---------------------------------------------------------------------------
(* P0: src/unnamed/part_000.  No Simulation Mode, no login, no lookup.     *)

P0_CreateStart(s, b) ==
    LET r == NewReq("create", b)
    IN  /\ variant = "P0"
        /\ Arrive(s)
        /\ UNCHANGED <<paymentIntents, payments, nextId>>
        /\ IF b.amount = 0 \/ ~b.customer.present \/ b.customer.email = Undef
           THEN Respond(s, r, 400, Err("Missing required fields"))
           ELSE Await(s, Calls([r EXCEPT !.pc = "create"], "create"))
        /\ Received

\* createAirwallexPaymentIntent() returns or throws; the stored intent has
\* no simulation field
P0_CreateReturn(s, o) ==
    LET r == reqs[s]
        localPaymentIntent == [LiveIntent(r) EXCEPT !.simulation = Undef]
    IN  /\ variant = "P0"
        /\ Resume(s, "create", "create")
        /\ IF o = "ok"
           THEN /\ paymentIntents' = Append(paymentIntents, localPaymentIntent)
                /\ nextId' = [nextId EXCEPT !.pi = @ + 1]
                /\ UNCHANGED payments
                /\ Respond(s, [r EXCEPT !.addedI = @ + 1], 200,
                           IntentResp(localPaymentIntent))
           ELSE /\ Respond(s, Failed(r, "create"), 500,
                           Err("Failed to create payment intent"))
                /\ UNCHANGED <<paymentIntents, payments, nextId>>
        /\ UNCHANGED config

P0_ConfirmStart(s, b) ==
    LET r == [NewReq("confirm", b) EXCEPT
                  !.found = (find(b.paymentIntentId) # NoIntent)]
        validationError == validateCardDetails(b.paymentMethod.card, now)
    IN  /\ variant = "P0"
        /\ Arrive(s)
        /\ UNCHANGED <<paymentIntents, payments, nextId>>
        /\ IF \/ ~b.paymentMethod.present
              \/ ~b.paymentMethod.card.present
              \/ ~b.paymentMethod.billing.present
           THEN \* the log line reads card.number and billing.email
                Respond(s, r, 500, Err("Failed to confirm payment"))
           ELSE IF validationError # "null"
           THEN Respond(s, [r EXCEPT !.valErr = validationError], 400,
                        Err(validationError))
           ELSE Await(s, Calls([r EXCEPT !.valErr = "null", !.pc = "confirm"], "confirm"))
        /\ Received

\* confirmAirwallexPayment() returns or throws
P0_ConfirmReturn(s, ret) ==
    LET r == [reqs[s] EXCEPT !.result = ret[2]]
        o == ret[1]
        paymentResult == ret[2]
        paymentRecord ==
            ResultRecord(ResultId(paymentResult), r.body.paymentIntentId,
                         paymentResult, r.body.paymentMethod.order_id,
                         r.body.paymentMethod.billing.email,
                         r.body.paymentMethod, Undef)
    IN  /\ variant = "P0"
        /\ Resume(s, "confirm", "confirm")
        /\ IF o # "ok"
           THEN /\ Respond(s, Failed(r, "confirm"), 500, Err("Failed to confirm payment"))
                /\ UNCHANGED <<paymentIntents, payments, nextId>>
           ELSE IF paymentResult.status \in {"SUCCEEDED", "REQUIRES_CAPTURE"}
           THEN /\ payments' = Append(payments, paymentRecord)
                /\ nextId' = [nextId EXCEPT !.pay = @ + 1]
                /\ UNCHANGED paymentIntents
                /\ Respond(s, [r EXCEPT !.addedP = @ + 1], 200,
                           ResultResp(paymentRecord.id, paymentResult,
                                      r.body.paymentMethod))
           ELSE /\ Respond(s, r, 400, [Err("Payment processing failed")
                                        EXCEPT !.status = paymentResult.status])
                /\ UNCHANGED <<paymentIntents, payments, nextId>>
        /\ UNCHANGED config

P0_Webhook(s, b) == RecordingWebhook("P0", s, b)

P0_Next ==
    \E s \in Slots :
        \/ \E b \in CreateBodies : P0_CreateStart(s, b)
        \/ \E o \in CreateOutcomes(hasKey) : P0_CreateReturn(s, o)
        \/ \E b \in ConfirmBodies : P0_ConfirmStart(s, b)
        \/ \E ret \in ConfirmReturnsFor(hasKey) : P0_ConfirmReturn(s, ret)
        \/ \E b \in WebhookBodies : P0_Webhook(s, b)

---------------------------------------------------------------------------
(* S2: src/server.js 172-357.  A receiver whose create and confirm are     *)
(* stubs: nothing is validated, looked up or stored by them.               *)

S2_CreatePaymentIntent(s, b) ==
    LET r == NewReq("create", b)
        paymentIntent == [NoResp EXCEPT !.id = <<"pi", nextId.pi>>,
                                        !.amount = b.amount,
                                        !.currency = b.currency,
                                        !.status = "requires_payment_method"]
    IN  /\ variant = "S2"
        /\ Arrive(s)
        /\ UNCHANGED <<paymentIntents, payments>>
        /\ IF ~b.customer.present
           THEN \* customer.email is logged
                /\ Respond(s, r, 500, Err("Failed to create payment intent"))
                /\ UNCHANGED nextId
           ELSE /\ Respond(s, r, 200, paymentIntent)
                /\ nextId' = [nextId EXCEPT !.pi = @ + 1]
        /\ Received

S2_ConfirmPayment(s, b) ==
    LET r == [NewReq("confirm", b) EXCEPT
                  !.found = (find(b.paymentIntentId) # NoIntent)]
        confirmedPayment == [NoResp EXCEPT !.id = b.paymentIntentId,
                                           !.status = "succeeded",
                                           !.amount = 10000,
                                           !.currency = "USD"]
    IN  /\ variant = "S2"
        /\ Arrive(s)
        /\ Respond(s, r, 200, confirmedPayment)
        /\ UNCHANGED <<paymentIntents, payments, nextId>>
        /\ Received

S2_Webhook(s, b) == RecordingWebhook("S2", s, b)

S2_Next ==
    \E s \in Slots :
        \/ \E b \in CreateBodies : S2_CreatePaymentIntent(s, b)
        \/ \E b \in ConfirmBodies : S2_ConfirmPayment(s, b)
        \/ \E b \in WebhookBodies : S2_Webhook(s, b)

---------------------------------------------------------------------------
(* Ledger lookups (P0, S3; S2 by payment id only).                         *)

\* the undefined that find returns when nothing matches
NoPayment ==
    [id |-> NoId, payment_intent_id |-> NoId, status |-> Undef, amount |-> 0,
     currency |-> Undef, order_id |-> Undef, customer_email |-> Undef,
     card_last4 |-> <<>>, simulation |-> Undef]

\* Array.prototype.find: the first element at one of the positions, or
\* undefined
First(seq, positions) ==
    IF positions = {} THEN NoPayment
    ELSE seq[CHOOSE i \in positions : \A j \in positions : i <= j]

\* find returning the last match: a wrong version, kept to show that the
\* lookup property C23 tells the two apart
findByOrderLast(orderId) ==
    LET positions == {i \in 1..Len(payments) : payments[i].order_id = orderId}
    IN  IF positions = {} THEN NoPayment
        ELSE payments[CHOOSE i \in positions : \A j \in positions : i >= j]

\* payments.find(p => p.id === paymentId)
findById(paymentId) ==
    First(payments, {i \in 1..Len(payments) : payments[i].id = paymentId})

\* payments.find(p => p.order_id === orderId)
findByOrder(orderId) ==
    First(payments, {i \in 1..Len(payments) : payments[i].order_id = orderId})

\* the route parameters the clients try: the payment ids handed out so far
\* and the id the webhook events carry; the order id every order carries and
\* another one
LookupIds == {<<"pay", i>> : i \in 1..(nextId.pay - 1)} \cup {<<"pi", 1>>}
LookupOrders == {"order_1", "order_2"}

\* a GET is answered at once: res.status(404).json(...) or res.json(payment).
\* It reads payments only, and a request in flight has not written to
\* payments yet, so lookups are explored while no request is in flight.
Lookup(v, kind, param, payment) ==
    LET r == NewReq(kind, [param |-> param])
    IN  /\ variant = v
        /\ \A s \in Slots : reqs[s] = Idle
        /\ last' = IF payment = NoPayment
                   THEN [r EXCEPT !.pc = "done", !.code = 404,
                                  !.resp = Err("Payment not found")]
                   ELSE [r EXCEPT !.pc = "done", !.code = 200, !.resp = payment]
        /\ UNCHANGED <<paymentIntents, payments, nextId, started, reqs, issued>>
        /\ UNCHANGED config

\* GET /api/payment/:paymentId
GetPayment(v, paymentId) == Lookup(v, "getPayment", paymentId, findById(paymentId))

\* GET /api/payment/order/:orderId
GetPaymentByOrder(v, orderId) == Lookup(v, "getOrder", orderId, findByOrder(orderId))

Lookup_Next ==
    \/ \E v \in {"P0", "S3", "S2"} : \E id \in LookupIds : GetPayment(v, id)
    \/ \E v \in {"P0", "S3"} : \E o \in LookupOrders : GetPaymentByOrder(v, o)

---------------------------------------------------------------------------
(* Hosted-page servers: POST /api/create-hpp-session.                      *)

\* if (!amount || !customer?.email) return res.status(400)
HppStart(v, s, b, pc, call) ==
    LET r == NewReq("hpp", b)
    IN  /\ variant = v
        /\ Arrive(s)
        /\ UNCHANGED <<paymentIntents, payments, nextId>>
        /\ IF b.amount = 0 \/ ~b.customer.present \/ b.customer.email = Undef
           THEN Respond(s, r, 400, Err("Missing amount or customer email"))
           ELSE Await(s, Calls([r EXCEPT !.pc = pc], call))
        /\ Received

\* the intent the hosted-page servers store: the amount is in cents
HppIntent(r) ==
    [id |-> <<"pi", nextId.pi>>,
     amount |-> r.body.amount * 100,
     currency |-> IF r.body.currency = Undef THEN "USD" ELSE r.body.currency,
     status |-> "requires_payment_method",
     simulation |-> Undef,
     email |-> r.body.customer.email,
     orderId |-> Undef]

\* intent.next_action?.redirect_url || intent.next_action?.redirect?.url || null
RedirectUrl(o) == IF o = "redirect" THEN "https://hpp" ELSE "null"

HppResp(id, url) == [NoResp EXCEPT !.id = id, !.redirect_url = url]

\* P1: src/unnamed/part_001; the API key has a default, there is no login
P1_HppStart(s, b) == HppStart("P1", s, b, "create", "create")

\* fetch returns or throws; the intent is stored before the redirect url is
\* looked at
P1_HppReturn(s, o) ==
    LET r == reqs[s]
    IN  /\ variant = "P1"
        /\ Resume(s, "hpp", "create")
        /\ IF o \in {"non2xx", "throw"}
           THEN /\ Respond(s, Failed(r, "create"), 500, Err("Airwallex create HPP failed"))
                /\ UNCHANGED <<paymentIntents, payments, nextId>>
           ELSE /\ paymentIntents' = Append(paymentIntents, HppIntent(r))
                /\ nextId' = [nextId EXCEPT !.pi = @ + 1]
                /\ UNCHANGED payments
                /\ IF RedirectUrl(o) = "null"
                   THEN Respond(s, [r EXCEPT !.addedI = @ + 1], 500,
                                Err("No redirect URL received from payment provider"))
                   ELSE Respond(s, [r EXCEPT !.addedI = @ + 1], 200,
                                HppResp(HppIntent(r).id, RedirectUrl(o)))
        /\ UNCHANGED config

P1_Webhook(s, b) == LoggingWebhook("P1", s, b)

\* P3: src/unnamed/part_003; login, then create
P3_HppStart(s, b) == HppStart("P3", s, b, "login", "login")

\* getAirwallexToken() returns or throws
P3_HppLogin(s, o) ==
    LET r == reqs[s]
    IN  /\ variant = "P3"
        /\ Resume(s, "hpp", "login")
        /\ UNCHANGED <<paymentIntents, payments, nextId>>
        /\ IF o = "token"
           THEN Await(s, Calls([r EXCEPT !.pc = "create", !.token = "token"], "create"))
           ELSE Respond(s, Failed(r, "login"), 500, Err("Airwallex auth failed"))
        /\ UNCHANGED config

\* fetch returns or throws; a missing redirect url is only warned about
P3_HppReturn(s, o) ==
    LET r == reqs[s]
    IN  /\ variant = "P3"
        /\ Resume(s, "hpp", "create")
        /\ IF o \in {"non2xx", "throw"}
           THEN /\ Respond(s, Failed(r, "create"), 500, Err("Airwallex create HPP failed"))
                /\ UNCHANGED <<paymentIntents, payments, nextId>>
           ELSE /\ paymentIntents' = Append(paymentIntents, HppIntent(r))
                /\ nextId' = [nextId EXCEPT !.pi = @ + 1]
                /\ UNCHANGED payments
                /\ Respond(s, [r EXCEPT !.addedI = @ + 1], 200,
                           HppResp(HppIntent(r).id, RedirectUrl(o)))
        /\ UNCHANGED config

P3_Webhook(s, b) == LoggingWebhook("P3", s, b)

\* P2: src/unnamed/part_002; payment links, nothing stored
P2_HppStart(s, b) == HppStart("P2", s, b, "login", "login")

\* getAirwallexToken() returns or throws; a 2xx body without a token is
\* returned as undefined and used
P2_HppLogin(s, o) ==
    LET r == reqs[s]
    IN  /\ variant = "P2"
        /\ Resume(s, "hpp", "login")
        /\ UNCHANGED <<paymentIntents, payments, nextId>>
        /\ IF o \in {"token", "notoken"}
           THEN Await(s, Calls([r EXCEPT !.pc = "create",
                                         !.token = IF o = "token" THEN "token" ELSE Undef],
                               "create"))
           ELSE Respond(s, Failed(r, "login"), 500, Err("Airwallex auth failed"))
        /\ UNCHANGED config

\* fetch returns or throws; redirect_url is data.url, whatever it is
P2_HppReturn(s, o) ==
    LET r == reqs[s]
    IN  /\ variant = "P2"
        /\ Resume(s, "hpp", "create")
        /\ UNCHANGED <<paymentIntents, payments>>
        /\ IF o \in {"non2xx", "throw"}
           THEN /\ Respond(s, Failed(r, "create"), 500, Err("Airwallex create HPP failed"))
                /\ UNCHANGED nextId
           ELSE /\ Respond(s, r, 200,
                           HppResp(<<"pi", nextId.pi>>,
                                   IF o = "redirect" THEN "https://hpp" ELSE Undef))
                /\ nextId' = [nextId EXCEPT !.pi = @ + 1]
        /\ UNCHANGED config

P2_Webhook(s, b) == LoggingWebhook("P2", s, b)

\* S1: src/server.js 1-170; nothing stored
S1_HppStart(s, b) == HppStart("S1", s, b, "create", "create")

\* fetch returns or throws
S1_HppReturn(s, o) ==
    LET r == reqs[s]
    IN  /\ variant = "S1"
        /\ Resume(s, "hpp", "create")
        /\ UNCHANGED <<paymentIntents, payments>>
        /\ IF o \in {"non2xx", "throw"}
           THEN /\ Respond(s, Failed(r, "create"), 500, Err("Airwallex create HPP failed"))
                /\ UNCHANGED nextId
           ELSE IF RedirectUrl(o) = "null"
           THEN /\ Respond(s, r, 500, Err("No redirect URL received from Airwallex"))
                /\ UNCHANGED nextId
           ELSE /\ Respond(s, r, 200, HppResp(<<"pi", nextId.pi>>, RedirectUrl(o)))
                /\ nextId' = [nextId EXCEPT !.pi = @ + 1]
        /\ UNCHANGED config

S1_Webhook(s, b) == LoggingWebhook("S1", s, b)

Hpp_Next ==
    \E s \in Slots :
        \/ \E b \in CreateBodies : P1_HppStart(s, b)
        \/ \E o \in HppOutcomes(hasKey) : P1_HppReturn(s, o)
        \/ \E b \in WebhookBodies : P1_Webhook(s, b)
        \/ \E b \in CreateBodies : P3_HppStart(s, b)
        \/ \E o \in LoginOutcomes(credentials) : P3_HppLogin(s, o)
        \/ \E o \in HppOutcomes(credentials) : P3_HppReturn(s, o)
        \/ \E b \in WebhookBodies : P3_Webhook(s, b)
        \/ \E b \in CreateBodies : P2_HppStart(s, b)
        \/ \E o \in LoginOutcomes(credentials) : P2_HppLogin(s, o)
        \/ \E o \in HppOutcomes(reqs[s].token = "token") : P2_HppReturn(s, o)
        \/ \E b \in WebhookBodies : P2_Webhook(s, b)
        \/ \E b \in CreateBodies : S1_HppStart(s, b)
        \/ \E o \in HppOutcomes(hasKey) : S1_HppReturn(s, o)
        \/ \E b \in WebhookBodies : S1_Webhook(s, b)

---------------------------------------------------------------------------

Config(v, k, c) == [variant |-> v, hasKey |-> k, hasClient |-> c]

\* the servers and the environments they may start in: S3 and P0 read the
\* API key only, P1 and S1 default it, S2 reads no credentials
Configs ==
    {Config("P4", k, c) : k \in BOOLEAN, c \in BOOLEAN}
    \cup {Config("S4", k, k) : k \in BOOLEAN}
    \cup {Config(v, k, FALSE) : v \in {"S3", "P0"}, k \in BOOLEAN}
    \cup {Config(v, k, k) : v \in {"P2", "P3"}, k \in BOOLEAN}
    \cup {Config(v, TRUE, FALSE) : v \in {"P1", "S1"}}
    \cup {Config("S2", FALSE, FALSE)}

Init ==
    /\ \E c \in Configs :
          /\ variant = c.variant
          /\ hasKey = c.hasKey
          /\ hasClient = c.hasClient
    /\ now = [year |-> 2025, month |-> 3]
    /\ paymentIntents = <<>>
    /\ payments = <<>>
    /\ nextId = [pi |-> 1, pay |-> 1]
    /\ started = 0
    /\ reqs = [s \in Slots |-> Idle]
    /\ last = NoLast
    /\ issued = {}
    /\ probe = NoProbe

Next == P4_Next \/ S4_Next \/ S3_Next \/ P0_Next \/ S2_Next \/ Hpp_Next \/ Lookup_Next

Spec == Init /\ [][Next]_vars

\* the handler of the request in slot s goes on: the outbound call it awaits
\* returns or throws, or its timer fires
Continue(s) == Next /\ reqs[s] # Idle /\ reqs'[s] # reqs[s]

\* the server as constructed, with two requests left to serve: enough for a
\* create and the confirm of its intent, one after the other or interleaved
InitTwo ==
    /\ \E c \in Configs :
          /\ variant = c.variant
          /\ hasKey = c.hasKey
          /\ hasClient = c.hasClient
    /\ now = [year |-> 2025, month |-> 3]
    /\ paymentIntents = <<>>
    /\ payments = <<>>
    /\ nextId = [pi |-> 1, pay |-> 1]
    /\ started = MaxRequests - 2
    /\ reqs = [s \in Slots |-> Idle]
    /\ last = NoLast
    /\ issued = {}
    /\ probe = NoProbe

\* some request in flight goes on
Progress == \E s \in Slots : Continue(s)

\* an outbound call that is awaited eventually returns or throws and a timer
\* that is awaited fires: while requests are in flight, one of them goes on.
\* Nothing is assumed about the arrival of requests.
FairSpec == InitTwo /\ [][Next]_vars /\ WF_vars(Progress)

---------------------------------------------------------------------------
(* validateCardDetails on its own: one call on one card, at one date.      *)

\* n digits with a space after the fourth and a space at the end
Spaced(n) ==
    LET k == IF n < 4 THEN n ELSE 4
    IN  SubSeq(Digits(n), 1, k) \o <<" ">> \o SubSeq(Digits(n), k + 1, n) \o <<" ">>

\* the dates new Date() may give
Todays == [year : 2024..2026, month : 1..12]

\* cards of every number length, written plain or with spaces, and every
\* CVV length, with an expiry far ahead; and cards of every expiry month
\* and year around the current one, with a good number and CVV
ProbeCards ==
    {[GoodCard EXCEPT !.number = n, !.cvc = Cvc(c)] :
        n \in {Digits(l) : l \in 0..MaxNumberLen} \cup {Spaced(l) : l \in 0..MaxNumberLen},
        c \in 0..MaxCvcLen}
    \cup {[GoodCard EXCEPT !.exp_month = m, !.exp_year = y] :
             m \in 0..13, y \in 2023..2027}

InitCard ==
    /\ variant = "P4"
    /\ hasKey = FALSE
    /\ hasClient = FALSE
    /\ now \in Todays
    /\ paymentIntents = <<>>
    /\ payments = <<>>
    /\ nextId = [pi |-> 1, pay |-> 1]
    /\ started = 0
    /\ reqs = [s \in Slots |-> Idle]
    /\ last = NoLast
    /\ issued = {}
    /\ \E c \in ProbeCards : probe = [card |-> c, verdict |-> "pending"]

ValidateCard ==
    /\ probe.verdict = "pending"
    /\ probe' = [probe EXCEPT !.verdict = validateCardDetails(probe.card, now)]
    /\ UNCHANGED <<variant, hasKey, hasClient, now, paymentIntents, payments,
                   nextId, started, reqs, last, issued>>

NextCard == ValidateCard

SpecCard == InitCard /\ [][NextCard]_vars

---------------------------------------------------------------------------
(* Properties.  A property about one request reads last, the request       *)
(* answered by the step just taken; a property about what that request     *)
(* did to the ledger compares the ledger before and after that step.       *)

\* the servers that have a Simulation Mode, running without credentials
SimulationMode ==
    \/ variant \in {"P4", "S4"} /\ ~credentials
    \/ variant = "S3" /\ ~hasKey

\* the card rules of the specification: 15 to 19 digits once whitespace is
\* stripped, a month of 1 to 12, an expiry not before the current month, a
\* CVV of 3 or 4 characters
CardAccepted(card) ==
    /\ Len(StripWs(card.number)) \in 15..19
    /\ card.exp_month \in 1..12
    /\ \/ card.exp_year > now.year
       \/ card.exp_year = now.year /\ card.exp_month >= now.month
    /\ Len(card.cvc) \in 3..4

\* a payment method with a card and billing details
WellFormed(paymentMethod) ==
    /\ paymentMethod.present
    /\ paymentMethod.card.present
    /\ paymentMethod.billing.present

\* amount, customer and customer.email are all there
ValidCreate(b) == b.amount # 0 /\ b.customer.present /\ b.customer.email # Undef

\* C1: in Simulation Mode, a confirm with a valid card for the id that a
\* create answered is answered 200 'succeeded' with the amount and currency
\* of that create, and the step that answers it makes payments one longer.
C1_SimulatedEndToEnd ==
    [][ ( /\ SimulationMode
          /\ last'.kind = "confirm" /\ last'.pc = "done"
          /\ WellFormed(last'.body.paymentMethod)
          /\ CardAccepted(last'.body.paymentMethod.card)
          /\ \E i \in issued : i.id = last'.body.paymentIntentId )
        => /\ last'.code = 200
           /\ last'.resp.status = "succeeded"
           /\ \A i \in issued :
                 i.id = last'.body.paymentIntentId
                 => /\ last'.resp.amount = i.amount
                    /\ last'.resp.currency = i.currency
           /\ Len(payments') = Len(payments) + 1
           /\ SubSeq(payments', 1, Len(payments)) = payments ]_vars

\* C1's case: a simulated create was confirmed and the payment is stored
C1_Witness ==
    /\ SimulationMode
    /\ last.kind = "confirm" /\ last.pc = "done" /\ last.code = 200
    /\ \E i \in issued : i.id = last.body.paymentIntentId /\ i.amount = last.resp.amount
    /\ Len(payments) = 1

\* C2: every create-payment-intent or create-hpp-session request whose
\* amount, customer or customer.email is missing is answered 400, and the
\* step that answers it leaves paymentIntents as it was.
C2_MissingFieldsRejected ==
    [][ ( /\ last'.kind \in {"create", "hpp"} /\ last'.pc = "done"
          /\ ~ValidCreate(last'.body) )
        => /\ last'.code = 400
           /\ paymentIntents' = paymentIntents ]_vars

\* C3: every confirm request that carries an id and a payment method, and
\* whose id matched no stored intent when it arrived, is answered 404, and
\* the step that answers it appends no payment.
C3_UnknownIntentNotFound ==
    [][ ( /\ last'.kind = "confirm" /\ last'.pc = "done"
          /\ last'.body.paymentIntentId # NoId
          /\ WellFormed(last'.body.paymentMethod)
          /\ ~last'.found )
        => /\ last'.code = 404
           /\ payments' = payments ]_vars

\* C4: in every state, every stored payment has a payment_intent_id that is
\* the id of exactly one stored intent.
C4_PaymentReferencesOneIntent ==
    \A i \in 1..Len(payments) :
        Cardinality({j \in 1..Len(paymentIntents) :
                        paymentIntents[j].id = payments[i].payment_intent_id}) = 1

C6_SimulatedConfirmedLocally ==
    /\ \A s \in Slots :
          (reqs[s].kind = "confirm" /\ reqs[s].intent.simulation = "true")
          => reqs[s].calls = <<>>
    /\ ( /\ last.kind = "confirm" /\ last.pc = "done"
         /\ last.intent.simulation = "true"
         /\ WellFormed(last.body.paymentMethod)
         /\ CardAccepted(last.body.paymentMethod.card) )
       => /\ last.calls = <<>>
          /\ last.code = 200
          /\ last.resp.status = "succeeded"

\* C7: a create request whose login call or intent-creation call failed is
\* answered 500 (no server reads a setting that enables a fallback).
C7_CreateFailureSurfaces ==
    (last.kind = "create" /\ last.pc = "done" /\ last.fail \in {"login", "create"})
    => last.code = 500

\* C8: a confirm whose card breaks a card rule, once the handler has run the
\* card validation, is answered 400 without any outbound call and without a
\* payment being appended; no confirm with such a card is ever suspended at
\* an outbound call.
C8_ValidationShortCircuits ==
    [][ /\ ( /\ last'.kind = "confirm" /\ last'.pc = "done"
             /\ last'.valErr # Undef
             /\ ~CardAccepted(last'.body.paymentMethod.card) )
           => /\ last'.code = 400
              /\ last'.calls = <<>>
              /\ payments' = payments
        /\ \A s \in Slots :
              (reqs'[s].kind = "confirm" /\ reqs'[s].body.paymentMethod.card.present)
              => CardAccepted(reqs'[s].body.paymentMethod.card) ]_vars

\* C8's case: with credentials configured, an expired card was turned away
C8_Witness ==
    /\ credentials
    /\ last.kind = "confirm" /\ last.pc = "done"
    /\ last.valErr = "Card expired"
    /\ last.code = 400 /\ last.calls = <<>>

\* C9: a confirm whose login call or confirm call failed (non-2xx, no token,
\* or a thrown fetch) is answered 500, and the step that answers it leaves
\* payments as it was.
C9_UpstreamFailureIs500 ==
    [][ ( /\ last'.kind = "confirm" /\ last'.pc = "done"
          /\ last'.fail \in {"login", "confirm"} )
        => /\ last'.code = 500
           /\ payments' = payments ]_vars

\* C9's case: the confirm call was made and failed
C9_Witness ==
    /\ last.kind = "confirm" /\ last.pc = "done"
    /\ last.fail = "confirm"
    /\ last.calls # <<>>
    /\ last.code = 500

\* C10: every payment stored by a confirm carries the amount and currency of
\* the stored intent it references.
C10_PaymentCopiesIntent ==
    \A i \in 1..Len(payments) :
        LET p == payments[i]
            pi == find(p.payment_intent_id)
        IN  (p.payment_intent_id # NoId /\ pi # NoIntent)
            => /\ p.amount = pi.amount
               /\ p.currency = pi.currency

\* C11: a confirm that got an answer from the processor's confirm call is
\* answered 200, with one Payment appended, exactly when the returned status
\* uppercased is SUCCEEDED, SUCCESS or CAPTURED; otherwise it is answered 400
\* and no Payment is appended.
C11_StatusClassification ==
    [][ ( /\ last'.kind = "confirm" /\ last'.pc = "done"
          /\ last'.result # NoResult )
        => IF toUpperCase(last'.result.status) \in {"SUCCEEDED", "SUCCESS", "CAPTURED"}
           THEN /\ last'.code = 200
                /\ Len(payments') = Len(payments) + 1
           ELSE /\ last'.code = 400
                /\ payments' = payments ]_vars

\* C12: a confirm answered 200 for a request that carried a card shows the
\* card only as the last four digits of its number with the whitespace
\* removed, in the response and in the Payment the step appended; the full
\* number is in neither.
C12_CardMaskedToLastFour ==
    [][ ( /\ last'.kind = "confirm" /\ last'.pc = "done" /\ last'.code = 200
          /\ last'.body.paymentMethod.card.present )
        => LET number == last'.body.paymentMethod.card.number
               lastFour == Slice4(StripWs(number))
           IN  /\ last'.resp.card_last4 = lastFour
               /\ last'.resp.card_last4 # number
               /\ Len(payments') = Len(payments) + 1
                  => /\ payments'[Len(payments')].card_last4 = lastFour
                     /\ payments'[Len(payments')].card_last4 # number ]_vars

\* C13: in every server, a webhook event of type payment_intent.succeeded or
\* payment_intent.captured that carries data appends exactly one Payment,
\* built from the id, amount and currency of the data.
C13_SucceededWebhookRecords ==
    [][ ( /\ last'.kind = "webhook" /\ last'.pc = "done"
          /\ last'.body.type \in {"payment_intent.succeeded", "payment_intent.captured"}
          /\ last'.body.data.present )
        => /\ Len(payments') = Len(payments) + 1
           /\ SubSeq(payments', 1, Len(payments)) = payments
           /\ payments'[Len(payments')].id = last'.body.data.id
           /\ payments'[Len(payments')].amount = last'.body.data.amount
           /\ payments'[Len(payments')].currency = last'.body.data.currency ]_vars

\* C14: every webhook request, whatever its type and whether or not it
\* carries data, is answered 200.
C14_WebhookAlwaysAcknowledged ==
    (last.kind = "webhook" /\ last.pc = "done") => last.code = 200

\* C15: a create-hpp-session request answered 200 carries a redirect_url
\* that is neither null nor undefined.
C15_RedirectUrlPresent ==
    (last.kind = "hpp" /\ last.pc = "done" /\ last.code = 200)
    => last.resp.redirect_url \notin {"null", Undef}

\* C16: within one request no processor endpoint is called twice, whether
\* the request is still in flight or was just answered.
C16_NoRetry ==
    LET Once(r) == \A c \in {"login", "create", "confirm"} :
                       Cardinality({i \in 1..Len(r.calls) : r.calls[i] = c}) <= 1
    IN  /\ Once(last)
        /\ \A s \in Slots : Once(reqs[s])

\* C17: a confirm request without paymentIntentId or without paymentMethod
\* is answered 400 without any outbound call, and the step that answers it
\* leaves both arrays as they were.
C17_MissingConfirmFieldsRejected ==
    [][ ( /\ last'.kind = "confirm" /\ last'.pc = "done"
          /\ \/ last'.body.paymentIntentId = NoId
             \/ ~last'.body.paymentMethod.present )
        => /\ last'.code = 400
           /\ last'.calls = <<>>
           /\ payments' = payments
           /\ paymentIntents' = paymentIntents ]_vars

\* the card validated on its own has been given its verdict
Validated == probe.verdict \notin {"none", "pending"}

\* (year, month) of the expiry is strictly before the current (year, month)
StrictlyBefore(card, today) ==
    card.exp_year * 12 + card.exp_month < today.year * 12 + today.month

\* C18: validateCardDetails answers 'Invalid card number' exactly when the
\* number without its whitespace has fewer than 15 or more than 19 digits;
\* a card whose number and expiry pass is answered 'Invalid CVV' exactly when
\* its CVV has fewer than 3 or more than 4 characters, and no card with such
\* a CVV is accepted.
C18_NumberAndCvvLengths ==
    Validated =>
        LET digits == Len(StripWs(probe.card.number))
            cvv == Len(probe.card.cvc)
            expiryPasses == /\ probe.card.exp_month \in 1..12
                            /\ ~StrictlyBefore(probe.card, now)
        IN  /\ (probe.verdict = "Invalid card number") <=> (digits < 15 \/ digits > 19)
            /\ (digits \in 15..19 /\ expiryPasses)
               => ((probe.verdict = "Invalid CVV") <=> (cvv < 3 \/ cvv > 4))
            /\ (cvv < 3 \/ cvv > 4) => probe.verdict # "null"

\* a number of 19 digits written with spaces and a CVV of 4 were accepted
C18_Witness ==
    /\ Validated
    /\ probe.verdict = "null"
    /\ Len(StripWs(probe.card.number)) = 19
    /\ Len(probe.card.number) > 19
    /\ Len(probe.card.cvc) = 4

\* C19: for a card whose number passes, validateCardDetails answers
\* 'Invalid expiry month' exactly when the month is outside 1..12, and
\* otherwise 'Card expired' exactly when the expiry (year, month) is strictly
\* before the current (year, month); an expiry in the current month is not
\* reported expired.
C19_ExpiryBoundary ==
    (Validated /\ Len(StripWs(probe.card.number)) \in 15..19) =>
        /\ (probe.verdict = "Invalid expiry month") <=> (probe.card.exp_month \notin 1..12)
        /\ probe.card.exp_month \in 1..12
           => ((probe.verdict = "Card expired") <=> StrictlyBefore(probe.card, now))
        /\ (probe.card.exp_year = now.year /\ probe.card.exp_month = now.month)
           => probe.verdict # "Card expired"

\* a card expiring in the current month was validated and accepted
C19_Witness ==
    /\ Validated
    /\ probe.card.exp_year = now.year
    /\ probe.card.exp_month = now.month
    /\ probe.verdict = "null"

\* C20: every step leaves the Payments already stored where they were, with
\* every field as it was, and adds at most one; a step that adds one is the
\* step answering 200 to a confirm or to a webhook event of type
\* payment_intent.succeeded.
C20_LedgerAppendOnly ==
    [][ /\ Len(payments') \in {Len(payments), Len(payments) + 1}
        /\ SubSeq(payments', 1, Len(payments)) = payments
        /\ payments' # payments
           => /\ last'.pc = "done"
              /\ last'.code = 200
              /\ \/ last'.kind = "confirm"
                 \/ /\ last'.kind = "webhook"
                    /\ last'.body.type = "payment_intent.succeeded" ]_vars

\* a succeeded webhook event was recorded behind a Payment stored by a confirm
C20_Witness ==
    /\ Len(payments) >= 2
    /\ payments[1].payment_intent_id # NoId
    /\ last.kind = "webhook" /\ last.pc = "done" /\ last.code = 200
    /\ last.body.type = "payment_intent.succeeded"
    /\ payments[Len(payments)] = handleSuccessfulPayment(last.body.data)

\* the positions of the stored intents with this id
Stored(id) == {i \in 1..Len(paymentIntents) : paymentIntents[i].id = id}

\* C21: the step answering 200 to a confirm for a stored intent changes the
\* status of that intent's record and none of its other fields.
C21_IntentStatusUpdated ==
    [][ ( /\ last'.kind = "confirm" /\ last'.pc = "done" /\ last'.code = 200
          /\ Stored(last'.body.paymentIntentId) # {} )
        => \A i \in Stored(last'.body.paymentIntentId) :
              /\ paymentIntents'[i].status # paymentIntents[i].status
              /\ paymentIntents'[i] = [paymentIntents[i] EXCEPT
                                          !.status = paymentIntents'[i].status] ]_vars

\* C22: the step answering a webhook event of a type other than
\* payment_intent.succeeded (failed, canceled, or a type the handler has no
\* case for) leaves payments and paymentIntents as they were.
C22_OtherWebhooksChangeNothing ==
    [][ ( /\ last'.kind = "webhook" /\ last'.pc = "done"
          /\ last'.body.type # "payment_intent.succeeded" )
        => /\ payments' = payments
           /\ paymentIntents' = paymentIntents ]_vars

\* a failed event carrying data was acknowledged while a Payment was stored
C22_Witness ==
    /\ last.kind = "webhook" /\ last.pc = "done" /\ last.code = 200
    /\ last.body.type = "payment_intent.failed"
    /\ last.body.data.present
    /\ Len(payments) >= 1

\* the positions of the Payments with this id, and with this order id
WithId(id) == {i \in 1..Len(payments) : payments[i].id = id}
WithOrder(orderId) == {i \in 1..Len(payments) : payments[i].order_id = orderId}

\* a lookup answered 404 when no position matches and otherwise 200 with the
\* Payment at the lowest matching position
Answered(req, matches) ==
    IF matches = {}
    THEN req.code = 404
    ELSE /\ req.code = 200
         /\ \E i \in matches : /\ \A j \in matches : i <= j
                               /\ req.resp = payments[i]

\* C23: GET /api/payment/:id answers 200 with the first Payment whose id is
\* :id and 404 when there is none; GET /api/payment/order/:orderId answers
\* 200 with the first Payment, in insertion order, whose order_id is :orderId
\* and 404 when there is none; the step leaves payments and paymentIntents as
\* they were.
C23_LedgerLookups ==
    [][ /\ (last'.kind = "getPayment" /\ last'.pc = "done")
           => /\ Answered(last', WithId(last'.body.param))
              /\ payments' = payments /\ paymentIntents' = paymentIntents
        /\ (last'.kind = "getOrder" /\ last'.pc = "done")
           => /\ Answered(last', WithOrder(last'.body.param))
              /\ payments' = payments /\ paymentIntents' = paymentIntents ]_vars

\* an order lookup was answered while two Payments shared the order id and
\* the first of them was not the first Payment stored
C23_Witness ==
    /\ last.kind = "getOrder" /\ last.pc = "done" /\ last.code = 200
    /\ Cardinality(WithOrder(last.body.param)) >= 2
    /\ 1 \notin WithOrder(last.body.param)

\* C24: a request that logged in makes no other processor call without a
\* token: once a call other than the login call is on its list, the token
\* the login returned is not undefined.
C24_NoCallWithoutToken ==
    LET Authorized(r) ==
            ( /\ r.calls # <<>>
              /\ r.calls[1] = "login"
              /\ \E i \in 1..Len(r.calls) : r.calls[i] # "login" )
            => r.token # Undef
    IN  /\ Authorized(last)
        /\ \A s \in Slots : Authorized(reqs[s])

\* the positions of the Payments that reference this intent
PaidBy(id) == {i \in 1..Len(payments) : payments[i].payment_intent_id = id}

\* C25: in Simulation Mode a confirm with a valid card for an intent that a
\* Payment already references is answered 200 all the same, whether it
\* arrived before or after that Payment was stored, and appends one more
\* Payment referencing the intent; nothing serializes or deduplicates.
C25_ConfirmsNotDeduplicated ==
    [][ ( /\ SimulationMode
          /\ last'.kind = "confirm" /\ last'.pc = "done"
          /\ WellFormed(last'.body.paymentMethod)
          /\ CardAccepted(last'.body.paymentMethod.card)
          /\ PaidBy(last'.body.paymentIntentId) # {} )
        => /\ last'.code = 200
           /\ payments' # payments
           /\ {i \in 1..Len(payments') :
                  payments'[i].payment_intent_id = last'.body.paymentIntentId}
              = PaidBy(last'.body.paymentIntentId) \cup {Len(payments) + 1} ]_vars

\* two Payments reference one intent
C25_Witness ==
    \E i, j \in 1..Len(payments) :
        /\ i < j
        /\ payments[i].payment_intent_id # NoId
        /\ payments[i].payment_intent_id = payments[j].payment_intent_id
        /\ payments[i].id # payments[j].id
        /\ last.kind = "confirm" /\ last.pc = "done" /\ last.code = 200
        /\ last.body.paymentIntentId = payments[j].payment_intent_id

\* C26: the step answering 200 to create-payment-intent appends exactly one
\* intent to paymentIntents, and its id is the id in the response.
C26_CreateAnswerHasStoredIntent ==
    [][ (last'.kind = "create" /\ last'.pc = "done" /\ last'.code = 200)
        => /\ Len(paymentIntents') = Len(paymentIntents) + 1
           /\ SubSeq(paymentIntents', 1, Len(paymentIntents)) = paymentIntents
           /\ paymentIntents'[Len(paymentIntents')].id = last'.resp.id
           /\ last'.resp.id # NoId ]_vars

\* C27: the step answering 400 or 500 to an intent-creation request of either
\* flow leaves paymentIntents as it was, and the request has stored no intent.
C27_FailedCreateStoresNothing ==
    [][ ( /\ last'.kind \in {"create", "hpp"} /\ last'.pc = "done"
          /\ last'.code \in {400, 500} )
        => /\ paymentIntents' = paymentIntents
           /\ last'.addedI = 0 ]_vars

\* C28: right after the step answering 200 to a confirm, payments holds a
\* record whose id is the id in the response, so the lookup by that id finds
\* a Payment.
C28_ReturnedIdIsStored ==
    [][ (last'.kind = "confirm" /\ last'.pc = "done" /\ last'.code = 200)
        => /\ last'.resp.id # NoId
           /\ \E i \in 1..Len(payments') : payments'[i].id = last'.resp.id ]_vars

\* C29: every Payment that references a stored intent carries the simulation
\* flag of that intent.
C29_PaymentKeepsSimulationFlag ==
    \A i \in 1..Len(payments) : \A j \in 1..Len(paymentIntents) :
        ( /\ payments[i].payment_intent_id # NoId
          /\ payments[i].payment_intent_id = paymentIntents[j].id )
        => payments[i].simulation = paymentIntents[j].simulation

\* C30: if every outbound call eventually returns or throws, every create,
\* confirm, webhook and hosted-page request is eventually answered: whenever
\* requests are in flight, a state with none in flight follows.  A request
\* in flight has not been answered yet, and the step that takes a request
\* out of flight is the one that sends its response.
C30_EveryRequestAnswered ==
    /\ [](\A s \in Slots : reqs[s].code = 0 /\ reqs[s].pc # "done")
    /\ [][ \A s \in Slots :
              (reqs[s] # Idle /\ reqs'[s] = Idle)
              => /\ last'.pc = "done"
                 /\ last'.code \in {200, 400, 404, 500}
                 /\ last'.kind = reqs[s].kind
                 /\ last'.body = reqs[s].body ]_vars
    /\ (\E s \in Slots : reqs[s] # Idle) ~> (\A s \in Slots : reqs[s] = Idle)

\* a create that went through both fallbacks of server.js 805-1175 (two
\* logins, two creation calls) was answered
C30_Witness ==
    /\ variant = "S4"
    /\ last.kind = "create" /\ last.pc = "done" /\ last.code = 200
    /\ Len(last.calls) = 4

===========================================================================
